---------------------------- MODULE Spec2Model ----------------------------
(***************************************************************************)
(* Model of src/data/ollama_manager.py (class OllamaManager and the chat   *)
(* branch of main) and of chat_with_ollama in src/data/ollama_example.py.  *)
(*                                                                         *)
(* One caller invokes one operation at a time.  An invocation issues its   *)
(* HTTP request, waits for the daemon, and returns.  The daemon is the     *)
(* environment: it may answer with any status and body, refuse the         *)
(* connection, break the stream, or accept the connection and stay silent. *)
(***************************************************************************)
EXTENDS Integers, Sequences, FiniteSets, TLC

\* ------------------------------------------------------------------ bounds
MaxModels == 2      \* records in the daemon's catalog
MaxLines == 3       \* lines the daemon sends on one /api/pull stream
MaxText == 3        \* characters of a chat message or of a chat answer
MaxElapsed == 2     \* clock ticks between start_time and end_time

\* ------------------------------------------------------- program constants
CHECK_TIMEOUT == 5
LIST_TIMEOUT == 10
PULL_TIMEOUT == 300
HTTP_OK == 200

VARIABLES
    pc,         \* "idle" | "waiting" | "streaming" | "done"
    op,         \* the operation invoked
    entry,      \* who invoked it: "manager" | "main" | "notebook"
    model,      \* model name argument
    message,    \* chat message / benchmark prompt (a text)
    timeout,    \* the timeout given to the HTTP client
    daemon,     \* "responsive" | "silent"
    netCalls,   \* requests issued by this invocation
    chatCalls,  \* calls of OllamaManager.chat made by this invocation
    http,       \* status code of the response (0: none received)
    body,       \* body of the /api/tags response
    content,    \* message.content of the /api/chat response
    failure,    \* exception raised by the HTTP layer ("" : none)
    stream,     \* lines of the /api/pull stream read so far
    streamEnd,  \* "open" | "closed" | "broken" | "timeout"
    events,     \* what install_model has printed, in order
    elapsed,    \* end_time - start_time of benchmark_model
    result,     \* the value returned to the caller
    escaped,    \* an exception propagated out of the operation
    returns     \* how many times this invocation produced a final outcome

vars == <<pc, op, entry, model, message, timeout, daemon, netCalls, chatCalls,
          http, body, content, failure, stream, streamEnd, events, elapsed,
          result, escaped, returns>>

\* ------------------------------------------------------------------ inputs
ModelNames == {"llama3.2:3b"}
CatalogNames == {"llama3.2:3b", "phi3:mini"}
Statuses == {200, 404, 500}
Chars == {"w", " "}

SeqsUpTo(S, n) == UNION {[1..k -> S] : k \in 0..n}

Texts == SeqsUpTo(Chars, MaxText)

\* A model record of /api/tags; the daemon may leave the name out.
ModelRecords ==
    {[hasName |-> TRUE, name |-> n] : n \in CatalogNames}
        \cup {[hasName |-> FALSE, name |-> ""]}

\* Bodies of an /api/tags response: {"models": [...]}, {}, {"models": null},
\* a JSON array, or text that is no JSON.
Bodies ==
    {[kind |-> "catalog", models |-> ms] : ms \in SeqsUpTo(ModelRecords, MaxModels)}
        \cup {[kind |-> k, models |-> <<>>] :
                k \in {"nokey", "nullmodels", "array", "notjson"}}

NoBody == [kind |-> "none", models |-> <<>>]

\* Byte counts a progress line carries.
Completed == {50, 100}

Totals == {0, 100, 150}

\* One line of the /api/pull stream: an empty keep-alive line, text that is no
\* JSON, a JSON number, or a JSON object with optional status/completed/total.
\* A count is read only when both are present: a lone count is one value.
ObjectLines ==
    {[kind |-> "object",
      hasStatus |-> hs, status |-> IF hs THEN "downloading" ELSE "",
      hasCompleted |-> hc, completed |-> IF hc THEN (IF ht THEN c ELSE 50) ELSE 0,
      hasTotal |-> ht, total |-> IF ht THEN (IF hc THEN t ELSE 100) ELSE 0] :
        hs \in BOOLEAN, hc \in BOOLEAN, c \in Completed,
        ht \in BOOLEAN, t \in Totals}

OtherLine(k) ==
    [kind |-> k, hasStatus |-> FALSE, status |-> "",
     hasCompleted |-> FALSE, completed |-> 0, hasTotal |-> FALSE, total |-> 0]

Lines == ObjectLines \cup {OtherLine(k) : k \in {"blank", "malformed", "scalar"}}

\* ------------------------------------------------------- returned values
NoResult ==
    [kind |-> "none", status |-> "", message |-> "", models_count |-> 0,
     models |-> <<>>, response |-> <<>>, word_count |-> 0, response_time |-> 0,
     response_length |-> 0, words_per_second |-> <<0, 1>>]

ErrorResult(msg) == [NoResult EXCEPT !.kind = "dict", !.status = "error", !.message = msg]

SuccessResult(msg) == [NoResult EXCEPT !.kind = "dict", !.status = "success", !.message = msg]

\* The outcome of a block of code: a value, or a raised exception.
Ret(v) == [raised |-> FALSE, exc |-> "", value |-> v]

Raise(e) == [raised |-> TRUE, exc |-> e, value |-> NoResult]

\* str(e) of the exceptions the operations can meet.
ExcText(e) ==
    CASE e = "ConnectionError" -> "Connection refused"
      [] e = "ConnectTimeout" -> "Connection to ollama timed out"
      [] e = "ReadTimeout" -> "Read timed out."
      [] e = "ChunkedEncodingError" -> "Connection broken"
      [] e = "JSONDecodeError" -> "Expecting value: line 1 column 1 (char 0)"
      [] e = "AttributeError" -> "'list' object has no attribute 'get'"
      [] e = "TypeError" -> "object of type 'NoneType' has no len()"
      [] e = "TypeErrorIn" -> "argument of type 'int' is not iterable"
      [] e = "KeyError" -> "'name'"
      [] e = "ZeroDivisionError" -> "division by zero"
      [] e = "ResponseError" -> "model not found"
      [] OTHER -> e

\* requests' exception classes: ConnectTimeout derives from both
\* ConnectionError and Timeout, ReadTimeout from Timeout only.
IsConnectionError(e) == e \in {"ConnectionError", "ConnectTimeout"}

IsTimeout(e) == e \in {"ConnectTimeout", "ReadTimeout"}

HttpMessage(code) == "HTTP " \o ToString(code)

Bounded(s) == [bounded |-> TRUE, seconds |-> s]

NoTimeout == [bounded |-> FALSE, seconds |-> 0]


\* ------------------------------------------------------- try / except
\* "except Exception" catches every exception the HTTP layer, the JSON
\* decoder and the handlers' own expressions raise.
CaughtRequestsOnly(e) ==
    e \in {"ConnectionError", "ConnectTimeout", "ReadTimeout",
           "ChunkedEncodingError", "JSONDecodeError"}

Caught(e) == TRUE

\* ------------------------------------------------------- check_connection
Connected(names) ==
    [NoResult EXCEPT !.kind = "dict", !.status = "connected",
                     !.models_count = Len(names), !.models = names]

NamesOf(ms) == [i \in 1..Len(ms) |-> ms[i].name]

CheckConnectionBody(status, b) ==
    IF status = HTTP_OK
    THEN CASE b.kind = "notjson" -> Raise("JSONDecodeError")
           [] b.kind = "array" -> Raise("AttributeError")
           [] b.kind = "nullmodels" -> Raise("TypeError")
           [] b.kind = "nokey" -> Ret(Connected(<<>>))
           [] OTHER ->
                IF \E i \in 1..Len(b.models) : ~b.models[i].hasName
                THEN Raise("KeyError")
                ELSE Ret(Connected(NamesOf(b.models)))
    ELSE Ret(ErrorResult(HttpMessage(status)))

CheckConnectionExcept(e) ==
    IF IsConnectionError(e)
    THEN ErrorResult("Connection refused - Ollama not running")
    ELSE IF IsTimeout(e)
         THEN ErrorResult("Connection timeout")
         ELSE ErrorResult(ExcText(e))

\* ------------------------------------------------------------ list_models
ListResult(ms) == [NoResult EXCEPT !.kind = "list", !.models = ms]

NoneResult == [NoResult EXCEPT !.kind = "None"]

ListModelsBody(status, b) ==
    IF status = HTTP_OK
    THEN CASE b.kind = "notjson" -> Raise("JSONDecodeError")
           [] b.kind = "array" -> Raise("AttributeError")
           [] b.kind = "nullmodels" -> Ret(NoneResult)
           [] b.kind = "nokey" -> Ret(ListResult(<<>>))
           [] OTHER -> Ret(ListResult(b.models))
    ELSE Ret(ListResult(<<>>))

ListModelsExcept(e) == ListResult(<<>>)

\* ---------------------------------------------------------- install_model
Event(type, text, tenths) == [type |-> type, text |-> text, tenths |-> tenths]

InstallBanner(m) == Event("print", "Installing " \o m, 0)

\* The stream is read only when the status is 200.
ReadsStreamAlways(status) == TRUE

ReadsStream(status) == status = HTTP_OK

\* (completed / total) * 100 printed with one decimal ("{progress:.1f}"),
\* in tenths of a percent, rounded half to even; total # 0.
ProgressFraction(completed, total) ==
    LET n == completed * 10
        q == n \div total
        r == n % total
    IN  IF 2 * r < total THEN q
        ELSE IF 2 * r > total THEN q + 1
        ELSE IF q % 2 = 0 THEN q ELSE q + 1

Progress(completed, total) ==
    LET n == completed * 1000
        q == n \div total
        r == n % total
    IN  IF 2 * r < total THEN q
        ELSE IF 2 * r > total THEN q + 1
        ELSE IF q % 2 = 0 THEN q ELSE q + 1

\* The body of the "for line in response.iter_lines()" loop for one line:
\* what it prints, and the exception it raises ("" : none).
ProcessLineProgressFirst(line) ==
    CASE line.kind = "blank" -> [printed |-> <<>>, exc |-> ""]
      [] line.kind = "malformed" -> [printed |-> <<>>, exc |-> "JSONDecodeError"]
      [] line.kind = "scalar" -> [printed |-> <<>>, exc |-> "TypeErrorIn"]
      [] OTHER ->
           LET st == IF line.hasStatus
                     THEN <<Event("status", line.status, 0)>> ELSE <<>>
           IN  IF line.hasCompleted /\ line.hasTotal
               THEN IF line.total = 0
                    THEN [printed |-> <<>>, exc |-> "ZeroDivisionError"]
                    ELSE [printed |->
                            <<Event("progress", "", Progress(line.completed, line.total))>>
                                \o st,
                          exc |-> ""]
               ELSE [printed |-> st, exc |-> ""]

ProcessLine(line) ==
    CASE line.kind = "blank" -> [printed |-> <<>>, exc |-> ""]
      [] line.kind = "malformed" -> [printed |-> <<>>, exc |-> "JSONDecodeError"]
      [] line.kind = "scalar" -> [printed |-> <<>>, exc |-> "TypeErrorIn"]
      [] OTHER ->
           LET st == IF line.hasStatus
                     THEN <<Event("status", line.status, 0)>> ELSE <<>>
           IN  IF line.hasCompleted /\ line.hasTotal
               THEN IF line.total = 0
                    THEN [printed |-> st, exc |-> "ZeroDivisionError"]
                    ELSE [printed |->
                            st \o <<Event("progress", "",
                                          Progress(line.completed, line.total))>>,
                          exc |-> ""]
               ELSE [printed |-> st, exc |-> ""]

InstallSuccess(m) == SuccessResult("Successfully installed " \o m)

InstallExceptPartial(e) ==
    [NoResult EXCEPT !.kind = "dict", !.status = "partial", !.message = ExcText(e)]

InstallExcept(e) == ErrorResult(ExcText(e))

\* ----------------------------------------------------------- remove_model
RemoveModelBody(status, m) ==
    IF status = HTTP_OK
    THEN Ret(SuccessResult("Successfully removed " \o m))
    ELSE Ret(ErrorResult(HttpMessage(status)))

RemoveModelExcept(e) == ErrorResult(ExcText(e))

\* ------------------------------------------------------------------- chat
\* ollama's client raises ResponseError on a status other than 200.
ChatBody(status, c) ==
    IF status = HTTP_OK
    THEN Ret([NoResult EXCEPT !.kind = "dict", !.status = "success", !.response = c])
    ELSE Raise("ResponseError")

ChatExcept(e) == ErrorResult(ExcText(e))

\* message.strip() is empty: no character other than whitespace.
IsBlank(text) == \A i \in 1..Len(text) : text[i] = " "

\* chat_with_ollama of the notebook returns a string.
StrResult(text, c) == [NoResult EXCEPT !.kind = "str", !.message = text, !.response = c]

ChatWithOllamaBody(status, c) ==
    IF status = HTTP_OK THEN Ret(StrResult("", c)) ELSE Raise("ResponseError")

ChatWithOllamaExcept(e) == StrResult("Error: " \o ExcText(e), <<>>)

\* -------------------------------------------------------- benchmark_model
\* len(response_text.split()): the number of maximal runs of non-whitespace.
RECURSIVE Split(_, _)
Split(text, inWord) ==
    IF text = <<>> THEN 0
    ELSE IF Head(text) = " " THEN Split(Tail(text), FALSE)
         ELSE (IF inWord THEN 0 ELSE 1) + Split(Tail(text), TRUE)

WordCountAsLength(text) == Len(text)

WordCount(text) == Split(text, FALSE)

RECURSIVE GCD(_, _)
GCD(a, b) == IF b = 0 THEN a ELSE GCD(b, a % b)

\* The quotient n / d as a fraction in lowest terms; d > 0.
Ratio(n, d) == LET g == GCD(n, d) IN <<n \div g, d \div g>>

WordsPerSecondUnguarded(word_count, response_time) ==
    IF response_time > 0 THEN Ratio(word_count, response_time) ELSE <<word_count, 0>>

WordsPerSecond(word_count, response_time) ==
    IF response_time > 0 THEN Ratio(word_count, response_time) ELSE <<0, 1>>

BenchmarkBody(chatOutcome, response_time) ==
    IF chatOutcome.raised THEN chatOutcome
    ELSE IF chatOutcome.value.status = "success"
         THEN LET text == chatOutcome.value.response
              IN  Ret([NoResult EXCEPT
                         !.kind = "dict", !.status = "success",
                         !.response_time = response_time,
                         !.response_length = Len(text),
                         !.word_count = WordCount(text),
                         !.words_per_second =
                             WordsPerSecond(WordCount(text), response_time)])
         ELSE chatOutcome

BenchmarkExcept(e) == ErrorResult(ExcText(e))

\* ------------------------------------------------- the operations' except
ExceptResult(o, ent, e) ==
    CASE o = "check_connection" -> CheckConnectionExcept(e)
      [] o = "list_models" -> ListModelsExcept(e)
      [] o = "install_model" -> InstallExcept(e)
      [] o = "remove_model" -> RemoveModelExcept(e)
      [] o = "chat" /\ ent = "notebook" -> ChatWithOllamaExcept(e)
      [] o = "chat" -> ChatExcept(e)
      [] OTHER -> BenchmarkExcept(e)

Try(o, ent, outcome) ==
    IF outcome.raised /\ Caught(outcome.exc)
    THEN Ret(ExceptResult(o, ent, outcome.exc))
    ELSE outcome

\* ------------------------------------------------------------------- Init
Init ==
    /\ pc = "idle"
    /\ op = "none"
    /\ entry = "manager"
    /\ model = "llama3.2:3b"
    /\ message = <<>>
    /\ timeout = NoTimeout
    /\ daemon = "responsive"
    /\ netCalls = 0
    /\ chatCalls = 0
    /\ http = 0
    /\ body = NoBody
    /\ content = <<>>
    /\ failure = ""
    /\ stream = <<>>
    /\ streamEnd = "open"
    /\ events = <<>>
    /\ elapsed = 0
    /\ result = NoResult
    /\ escaped = FALSE
    /\ returns = 0

\* A new invocation.
Begin(o, ent, m, msg) ==
    /\ pc = "idle"
    /\ op' = o
    /\ entry' = ent
    /\ model' = m
    /\ message' = msg
    /\ daemon' = "responsive"
    /\ http' = 0
    /\ body' = NoBody
    /\ content' = <<>>
    /\ failure' = ""
    /\ stream' = <<>>
    /\ streamEnd' = "open"
    /\ elapsed' = 0
    /\ escaped' = FALSE
    /\ returns' = 0

\* The request is sent; the invocation waits for the daemon.
Request(to, chats) ==
    /\ pc' = "waiting"
    /\ timeout' = to
    /\ netCalls' = 1
    /\ chatCalls' = chats
    /\ result' = NoResult

\* The operation ends with `outcome`: a returned value or an exception that
\* leaves it.
Finish(outcome) ==
    /\ pc' = "done"
    /\ result' = outcome.value
    /\ escaped' = outcome.raised
    /\ returns' = IF outcome.raised THEN returns ELSE returns + 1

\* ------------------------------------------------------------ invocations
CheckConnectionCall ==
    /\ Begin("check_connection", "manager", model, <<>>)
    /\ Request(Bounded(CHECK_TIMEOUT), 0)
    /\ events' = <<>>

ListModelsCall ==
    /\ Begin("list_models", "manager", model, <<>>)
    /\ Request(Bounded(LIST_TIMEOUT), 0)
    /\ events' = <<>>

InstallModelCall ==
    \E m \in ModelNames :
        /\ Begin("install_model", "manager", m, <<>>)
        /\ Request(Bounded(PULL_TIMEOUT), 0)
        /\ events' = <<InstallBanner(m)>>

\* requests.delete is called without a timeout.
RemoveModelCall ==
    \E m \in ModelNames :
        /\ Begin("remove_model", "manager", m, <<>>)
        /\ Request(NoTimeout, 0)
        /\ events' = <<>>

\* OllamaManager.chat: the message goes to the client as it is.  The client
\* is ollama.Client(host=host), built without a timeout.
ChatCall ==
    \E m \in ModelNames, msg \in Texts :
        /\ Begin("chat", "manager", m, msg)
        /\ Request(NoTimeout, 1)
        /\ events' = <<>>

BenchmarkModelCall ==
    \E m \in ModelNames, prompt \in Texts :
        /\ Begin("benchmark_model", "manager", m, prompt)
        /\ Request(NoTimeout, 1)
        /\ events' = <<>>

\* main, --action chat: "not args.message" holds for a missing and for an
\* empty message; main then prints an error and returns nothing.
MainChat ==
    \E m \in ModelNames, given \in BOOLEAN, msg \in Texts :
        /\ Begin("chat", "main", m, IF given THEN msg ELSE <<>>)
        /\ IF ~given \/ msg = <<>>
           THEN /\ events' = <<Event("print",
                     "Error: --model and --message required for chat action", 0)>>
                /\ timeout' = NoTimeout
                /\ netCalls' = 0
                /\ chatCalls' = 0
                /\ pc' = "done"
                /\ result' = NoneResult
           ELSE /\ Request(NoTimeout, 1)
                /\ events' = <<>>

\* chat_with_ollama of the notebook: a blank message is answered locally.
ChatWithOllama ==
    \E m \in ModelNames, msg \in Texts :
        /\ Begin("chat", "notebook", m, msg)
        /\ IF IsBlank(msg)
           THEN /\ events' = <<>>
                /\ timeout' = NoTimeout
                /\ netCalls' = 0
                /\ chatCalls' = 0
                /\ pc' = "done"
                /\ result' = StrResult("Please enter a message.", <<>>)
           ELSE /\ Request(NoTimeout, 0)
                /\ events' = <<>>

\* ------------------------------------------------------------- the daemon
\* The daemon has accepted the connection and sends nothing more.
DaemonStalls ==
    /\ pc \in {"waiting", "streaming"}
    /\ daemon = "responsive"
    /\ daemon' = "silent"
    /\ UNCHANGED <<pc, op, entry, model, message, timeout, netCalls, chatCalls,
                   http, body, content, failure, stream, streamEnd, events,
                   elapsed, result, escaped, returns>>

Answering(o) == pc = "waiting" /\ op = o /\ daemon = "responsive"

CheckConnectionResponds ==
    \E s \in Statuses, b \in Bodies :
        /\ Answering("check_connection")
        /\ http' = s
        /\ body' = b
        /\ Finish(Try(op, entry, CheckConnectionBody(s, b)))
        /\ UNCHANGED <<op, entry, model, message, timeout, daemon, netCalls,
                       chatCalls, content, failure, stream, streamEnd, events,
                       elapsed>>

ListModelsResponds ==
    \E s \in Statuses, b \in Bodies :
        /\ Answering("list_models")
        /\ http' = s
        /\ body' = b
        /\ Finish(Try(op, entry, ListModelsBody(s, b)))
        /\ UNCHANGED <<op, entry, model, message, timeout, daemon, netCalls,
                       chatCalls, content, failure, stream, streamEnd, events,
                       elapsed>>

RemoveModelResponds ==
    \E s \in Statuses :
        /\ Answering("remove_model")
        /\ http' = s
        /\ Finish(Try(op, entry, RemoveModelBody(s, model)))
        /\ UNCHANGED <<op, entry, model, message, timeout, daemon, netCalls,
                       chatCalls, body, content, failure, stream, streamEnd,
                       events, elapsed>>

ChatResponds ==
    \E s \in Statuses, c \in Texts :
        /\ Answering("chat")
        /\ http' = s
        /\ content' = IF s = HTTP_OK THEN c ELSE <<>>
        /\ Finish(Try(op, entry,
                      IF entry = "notebook"
                      THEN ChatWithOllamaBody(s, c) ELSE ChatBody(s, c)))
        /\ UNCHANGED <<op, entry, model, message, timeout, daemon, netCalls,
                       chatCalls, body, failure, stream, streamEnd, events,
                       elapsed>>

\* benchmark_model: the chat call returns, the clock is read, the figures
\* are computed.
BenchmarkResponds ==
    \E s \in Statuses, c \in Texts, dt \in 0..MaxElapsed :
        /\ Answering("benchmark_model")
        /\ http' = s
        /\ content' = IF s = HTTP_OK THEN c ELSE <<>>
        /\ elapsed' = dt
        /\ Finish(Try(op, entry,
                      BenchmarkBody(Try("chat", "manager", ChatBody(s, c)), dt)))
        /\ UNCHANGED <<op, entry, model, message, timeout, daemon, netCalls,
                       chatCalls, body, failure, stream, streamEnd, events>>

\* install_model: the response head arrives.
InstallModelResponds ==
    \E s \in Statuses :
        /\ Answering("install_model")
        /\ http' = s
        /\ IF ReadsStream(s)
           THEN /\ pc' = "streaming"
                /\ UNCHANGED <<result, escaped, returns>>
           ELSE Finish(Ret(ErrorResult(HttpMessage(s))))
        /\ UNCHANGED <<op, entry, model, message, timeout, daemon, netCalls,
                       chatCalls, body, content, failure, stream, streamEnd,
                       events, elapsed>>

\* One iteration of the loop over response.iter_lines().
ReadLine ==
    \E line \in Lines :
        /\ pc = "streaming"
        /\ daemon = "responsive"
        /\ Len(stream) < MaxLines
        /\ stream' = Append(stream, line)
        /\ LET step == ProcessLine(line)
           IN  /\ events' = events \o step.printed
               /\ IF step.exc = ""
                  THEN UNCHANGED <<pc, result, escaped, returns, failure>>
                  ELSE /\ failure' = step.exc
                       /\ Finish(Try(op, entry, Raise(step.exc)))
        /\ UNCHANGED <<op, entry, model, message, timeout, daemon, netCalls,
                       chatCalls, http, body, content, streamEnd, elapsed>>

\* The daemon closes the connection: the loop ends.
StreamCloses ==
    /\ pc = "streaming"
    /\ daemon = "responsive"
    /\ streamEnd' = "closed"
    /\ Finish(Ret(InstallSuccess(model)))
    /\ UNCHANGED <<op, entry, model, message, timeout, daemon, netCalls,
                   chatCalls, http, body, content, failure, stream, events,
                   elapsed>>

\* The connection breaks while the stream is read.
StreamBreaks ==
    /\ pc = "streaming"
    /\ daemon = "responsive"
    /\ streamEnd' = "broken"
    /\ failure' = "ChunkedEncodingError"
    /\ Finish(Try(op, entry, Raise("ChunkedEncodingError")))
    /\ UNCHANGED <<op, entry, model, message, timeout, daemon, netCalls,
                   chatCalls, http, body, content, stream, events, elapsed>>

\* What the HTTP layer raises when no connection is made: the connection is
\* refused, or (with a timeout set) the connect attempt times out.
ConnectFailures == {"ConnectionError"} \cup
    (IF timeout.bounded /\ op \in {"check_connection", "list_models",
                                   "install_model", "remove_model"}
     THEN {"ConnectTimeout"} ELSE {})

RequestFails ==
    \E e \in ConnectFailures, dt \in 0..MaxElapsed :
        /\ pc = "waiting"
        /\ daemon = "responsive"
        /\ failure' = e
        /\ elapsed' = IF op = "benchmark_model" THEN dt ELSE 0
        /\ Finish(Try(op, entry,
                      IF op = "benchmark_model"
                      THEN BenchmarkBody(Try("chat", "manager", Raise(e)), dt)
                      ELSE Raise(e)))
        /\ UNCHANGED <<op, entry, model, message, timeout, daemon, netCalls,
                       chatCalls, http, body, content, stream, streamEnd,
                       events>>

\* The daemon is silent and the client's timeout expires.  Without a timeout
\* the client waits on.
ReadTimeoutFires ==
    /\ pc \in {"waiting", "streaming"}
    /\ daemon = "silent"
    /\ timeout.bounded
    /\ failure' = "ReadTimeout"
    /\ streamEnd' = IF pc = "streaming" THEN "timeout" ELSE streamEnd
    /\ Finish(Try(op, entry, Raise("ReadTimeout")))
    /\ UNCHANGED <<op, entry, model, message, timeout, daemon, netCalls,
                   chatCalls, http, body, content, stream, events, elapsed>>

\* The caller has taken the result; the next invocation starts afresh.
CallerReturns ==
    /\ pc = "done"
    /\ pc' = "idle"
    /\ op' = "none"
    /\ entry' = "manager"
    /\ model' = "llama3.2:3b"
    /\ message' = <<>>
    /\ timeout' = NoTimeout
    /\ daemon' = "responsive"
    /\ netCalls' = 0
    /\ chatCalls' = 0
    /\ http' = 0
    /\ body' = NoBody
    /\ content' = <<>>
    /\ failure' = ""
    /\ stream' = <<>>
    /\ streamEnd' = "open"
    /\ events' = <<>>
    /\ elapsed' = 0
    /\ result' = NoResult
    /\ escaped' = FALSE
    /\ returns' = 0

Next ==
    \/ CheckConnectionCall
    \/ ListModelsCall
    \/ InstallModelCall
    \/ RemoveModelCall
    \/ ChatCall
    \/ BenchmarkModelCall
    \/ MainChat
    \/ ChatWithOllama
    \/ DaemonStalls
    \/ CheckConnectionResponds
    \/ ListModelsResponds
    \/ RemoveModelResponds
    \/ ChatResponds
    \/ BenchmarkResponds
    \/ InstallModelResponds
    \/ ReadLine
    \/ StreamCloses
    \/ StreamBreaks
    \/ RequestFails
    \/ ReadTimeoutFires
    \/ CallerReturns

Spec == Init /\ [][Next]_vars

\* ------------------------------------------------------------- properties
Abs(x) == IF x < 0 THEN -x ELSE x

Installing == op = "install_model"

Banner == Event("print", "Installing " \o model, 0)

\* A line the loop body cannot process: no JSON, no JSON object, or both
\* counts with total = 0.
IsMalformed(line) == line.kind = "malformed"

IsZeroTotal(line) ==
    line.kind = "object" /\ line.hasCompleted /\ line.hasTotal /\ line.total = 0

IsWellFormed(line) ==
    \/ line.kind = "blank"
    \/ line.kind = "object" /\ ~IsZeroTotal(line)

WellFormed(lines) == \A i \in 1..Len(lines) : IsWellFormed(lines[i])

\* completed / total * 100 to the nearest tenth of a percent (a tie goes to
\* the even tenth); total > 0.
Percent(completed, total) ==
    CHOOSE v \in ((completed * 1000) \div total)..((completed * 1000) \div total + 1) :
        LET d == 2 * Abs(v * total - completed * 1000)
        IN  d < total \/ (d = total /\ v % 2 = 0)

\* What a well-formed stream is to surface, line by line.
RECURSIVE Surfaced(_)
Surfaced(lines) ==
    IF lines = <<>> THEN <<>>
    ELSE LET l == Head(lines)
         IN  (IF l.hasStatus THEN <<Event("status", l.status, 0)>> ELSE <<>>)
             \o (IF l.hasCompleted /\ l.hasTotal
                 THEN <<Event("progress", "", Percent(l.completed, l.total))>>
                 ELSE <<>>)
             \o Surfaced(Tail(lines))

DownloadingLine ==
    [kind |-> "object", hasStatus |-> TRUE, status |-> "downloading",
     hasCompleted |-> FALSE, completed |-> 0, hasTotal |-> FALSE, total |-> 0]

HalfLine ==
    [kind |-> "object", hasStatus |-> FALSE, status |-> "",
     hasCompleted |-> TRUE, completed |-> 50, hasTotal |-> TRUE, total |-> 100]

\* C1: every install_model invocation produces exactly one final outcome,
\* success or error: none while it runs, one when it is done, no exception
\* in its place.  Which one is fixed by the daemon's behaviour alone:
\* success exactly when the status is 200 and the stream was read to its
\* close without a line that stops the loop; the number of events surfaced
\* plays no part.
InstallExactlyOneOutcome ==
    Installing =>
        /\ pc \in {"waiting", "streaming"} => returns = 0 /\ result = NoResult
        /\ pc = "done" =>
            /\ returns = 1
            /\ ~escaped
            /\ result.kind = "dict"
            /\ result.status \in {"success", "error"}
            /\ result.status = "success" <=>
                 (http = HTTP_OK /\ streamEnd = "closed" /\ WellFormed(stream))

\* C1 witness: a failure part-way through the stream, after a status event
\* was surfaced, ended in the error outcome.
InstallFailedMidStream ==
    /\ Installing /\ pc = "done"
    /\ Len(stream) >= 2
    /\ Len(events) >= 2
    /\ streamEnd = "broken"
    /\ result.status = "error"

\* C2: on HTTP 200 a malformed line in the stream is skipped and the
\* operation, unless the transport fails, ends with Success having surfaced
\* every valid line.
MalformedLineSkipped ==
    (/\ Installing /\ pc = "done" /\ http = HTTP_OK
     /\ streamEnd \notin {"broken", "timeout"}
     /\ \E i \in 1..Len(stream) : IsMalformed(stream[i])
     /\ \A i \in 1..Len(stream) : IsMalformed(stream[i]) \/ IsWellFormed(stream[i]))
        => /\ result.status = "success"
           /\ streamEnd = "closed"

\* C3: a progress line with total = 0 raises no division error: it is
\* skipped, and the operation does not fail because of it.
ZeroTotalSkipped ==
    (/\ Installing /\ pc = "done" /\ http = HTTP_OK
     /\ streamEnd \notin {"broken", "timeout"}
     /\ \E i \in 1..Len(stream) : IsZeroTotal(stream[i])
     /\ \A i \in 1..Len(stream) : IsZeroTotal(stream[i]) \/ IsWellFormed(stream[i]))
        => /\ failure # "ZeroDivisionError"
           /\ result.status = "success"

\* C4: a chat with an empty or whitespace-only message makes no network call
\* at any point and ends in an error, not in a success.
BlankChatMakesNoCall ==
    (op = "chat" /\ IsBlank(message)) =>
        /\ netCalls = 0
        /\ pc = "done" => result.status # "success"

Boundary ==
    {"check_connection", "list_models", "install_model", "remove_model",
     "chat", "benchmark_model"}

Tags == {"connected", "success", "error"}

\* C5 (as stated): each of the six operations returns, without an exception
\* leaving it, a tagged Success/Error result.
UniformTaggedResult ==
    (pc = "done" /\ entry = "manager" /\ op \in Boundary) =>
        /\ ~escaped
        /\ result.kind = "dict"
        /\ result.status \in Tags

\* C5 (amended): no exception leaves any of the six operations, whatever the
\* daemon does.  check_connection, install_model, remove_model, chat and
\* benchmark_model return a result tagged connected/success or error;
\* list_models returns the daemon's bare models value (a list, or None for
\* "models": null), and the empty list on a failure or a status other than 200.
NoExceptionCrosses ==
    /\ ~escaped
    /\ (pc = "done" /\ entry = "manager" /\ op \in Boundary \ {"list_models"}) =>
           result.kind = "dict" /\ result.status \in Tags
    /\ (pc = "done" /\ op = "list_models") =>
           /\ result.status = ""
           /\ \/ result.kind = "list"
              \/ result.kind = "None" /\ body.kind = "nullmodels"
           /\ (http # HTTP_OK \/ body.kind \in {"notjson", "array"}) =>
                  result.kind = "list" /\ result.models = <<>>
           /\ (http = HTTP_OK /\ body.kind = "catalog") =>
                  result.kind = "list" /\ result.models = body.models

\* C5 witness: list_models swallowed a body that is no JSON and returned the
\* empty list; check_connection met a record without a name.
FailureSwallowed ==
    /\ pc = "done"
    /\ \/ op = "list_models" /\ http = HTTP_OK /\ body.kind = "notjson"
          /\ result.kind = "list"
       \/ op = "check_connection" /\ http = HTTP_OK /\ body.kind = "catalog"
          /\ (\E i \in 1..Len(body.models) : ~body.models[i].hasName)
          /\ result.status = "error"

\* C6: every invocation terminates (while it runs, the client can always
\* take a step, even if the daemon has gone silent) and makes at most one
\* request.
EveryCallTerminates ==
    /\ pc \in {"waiting", "streaming"} => ENABLED Next
    /\ netCalls <= 1

\* C7: on a status other than 200 install_model returns Error with that HTTP
\* code at once: the stream is never entered, no line is read, no status or
\* progress event is surfaced.
NonOkShortCircuits ==
    Installing =>
        /\ pc = "streaming" => http = HTTP_OK
        /\ (pc = "done" /\ http # 0 /\ http # HTTP_OK) =>
            /\ result.kind = "dict" /\ result.status = "error"
            /\ http = 404 => result.message = "HTTP 404"
            /\ http = 500 => result.message = "HTTP 500"
            /\ stream = <<>>
            /\ streamEnd = "open"
            /\ events = <<Banner>>

\* C7 witness: install_model ended on a 404.
InstallRefusedByStatus ==
    Installing /\ pc = "done" /\ http = 404 /\ result.status = "error"

\* C8: on HTTP 200 the events of a well-formed stream are surfaced in stream
\* order, line by line (the phase if the line has a status, then the
\* percentage completed/total*100 if it has both counts), and after the
\* close the operation ends with Success; {"status":"downloading"},
\* {"completed":50,"total":100}, close gives "downloading", 50.0%, Success.
WellFormedStreamSurfaced ==
    (Installing /\ http = HTTP_OK) =>
        /\ pc = "streaming" => events = <<Banner>> \o Surfaced(stream)
        /\ (pc = "done" /\ streamEnd = "closed" /\ WellFormed(stream)) =>
            /\ events = <<Banner>> \o Surfaced(stream)
            /\ result.kind = "dict" /\ result.status = "success"
            /\ returns = 1
        /\ (pc = "done" /\ streamEnd = "closed"
               /\ stream = <<DownloadingLine, HalfLine>>) =>
            /\ events = <<Banner, Event("status", "downloading", 0),
                          Event("progress", "", 500)>>
            /\ result.status = "success"

\* C8 witness: the two-line stream of the example was read to its close.
ExampleStreamInstalled ==
    /\ Installing /\ pc = "done" /\ streamEnd = "closed"
    /\ stream = <<DownloadingLine, HalfLine>>
    /\ Len(events) = 3

\* C9: check_connection classifies the daemon's answer: 200 with a catalog
\* gives connected with the catalog's count and names in order (0 models for
\* an empty catalog); another status gives Error with the code; a refused
\* connection gives the 'not running' Error; a timeout the 'timeout' Error.
ConnectionClassified ==
    (op = "check_connection" /\ pc = "done") =>
        /\ (http = HTTP_OK /\ body.kind = "catalog"
              /\ \A i \in 1..Len(body.models) : body.models[i].hasName) =>
            /\ result.status = "connected"
            /\ result.models_count = Len(body.models)
            /\ Len(result.models) = Len(body.models)
            /\ \A i \in 1..Len(body.models) : result.models[i] = body.models[i].name
        /\ (http # 0 /\ http # HTTP_OK) =>
            /\ result.status = "error"
            /\ http = 404 => result.message = "HTTP 404"
            /\ http = 500 => result.message = "HTTP 500"
        /\ failure = "ConnectionError" =>
            /\ result.status = "error"
            /\ result.message = "Connection refused - Ollama not running"
        /\ failure \in {"ConnectTimeout", "ReadTimeout"} =>
            /\ result.status = "error"
            /\ result.message = "Connection timeout"

\* len(text.split()) by position: a word starts where a non-blank character
\* follows a blank or begins the text.
Words(text) ==
    Cardinality({i \in 1..Len(text) :
                    text[i] # " " /\ (i = 1 \/ text[i - 1] = " ")})

\* C10: benchmark_model calls chat once (one request); on success the
\* throughput is word_count / elapsed, and 0 (still a Success) when elapsed
\* is 0; when chat fails the result is chat's Error, unchanged.
BenchmarkThroughput ==
    (op = "benchmark_model" /\ pc = "done") =>
        /\ chatCalls = 1
        /\ netCalls = 1
        /\ (failure = "" /\ http = HTTP_OK) =>
            /\ result.kind = "dict" /\ result.status = "success"
            /\ result.word_count = Words(content)
            /\ result.response_time = elapsed
            /\ elapsed > 0 =>
                 /\ result.words_per_second[2] > 0
                 /\ result.words_per_second[1] * elapsed
                      = Words(content) * result.words_per_second[2]
            /\ elapsed = 0 => result.words_per_second = <<0, 1>>
        /\ (failure = "" /\ http # HTTP_OK) =>
            result = ErrorResult("model not found")
        /\ failure = "ConnectionError" =>
            result = ErrorResult("Connection refused")

\* C10 witness: a benchmark whose clock did not advance, on an answer that
\* has words.
BenchmarkWithZeroElapsed ==
    /\ op = "benchmark_model" /\ pc = "done"
    /\ elapsed = 0
    /\ result.status = "success"
    /\ result.word_count = 2

=============================================================================
